---- MODULE Spec2Model ----
(***************************************************************************)
(* A model of project.py, the NASA API explorer: the three operations      *)
(* explore_asteroids, explore_apod and explore_mars_rover_photos, each     *)
(* run once on inputs drawn from bounded sets.  Python strings are TLA+    *)
(* strings; a character is a string of length one.                         *)
(***************************************************************************)
EXTENDS Integers, Sequences, FiniteSets, TLC

VARIABLES op, start_date, end_date, date, file_name, today,
          pc, result, returned, status_code, api_response, log, images, image_url,
          fetched, files, printed

(***************************************************************************)
(* op            the operation main() calls (project.py 71-79)             *)
(* start_date, end_date   the arguments of explore_asteroids               *)
(* date, file_name        the arguments of explore_apod and of             *)
(*               explore_mars_rover_photos; the rebinding of file_name at  *)
(*               lines 229 and 317 is the name of the file in files        *)
(* today         what dt.datetime.today() returns at line 275              *)
(* pc            the step the operation is at                              *)
(* result        "running", "returned", or the exception that left it      *)
(* returned      the value returned; False is 0                            *)
(* status_code   api_response.status_code of the first response            *)
(* api_response  the parsed body of the first response                     *)
(* log           log (asteroids) or photos (rover), once extracted         *)
(* images, image_url   the locals of those names                           *)
(* fetched       the requests.get calls made, in order                     *)
(* files         the files opened for writing and their content, in order  *)
(* printed       the lines printed                                         *)
(***************************************************************************)
vars == <<op, start_date, end_date, date, file_name, today,
          pc, result, returned, status_code, api_response, log, images, image_url,
          fetched, files, printed>>

(***************************************************************************)
(* Strings                                                                 *)
(***************************************************************************)

\* s[i - 1] of Python, as a string of length one ("" when out of range).
Ch(s, i) == IF i >= 1 /\ i <= Len(s) THEN SubSeq(s, i, i) ELSE ""

Digits == {"0", "1", "2", "3", "4", "5", "6", "7", "8", "9"}

IsDigit(c) == c \in Digits

DigitVal(c) ==
    CASE c = "0" -> 0 [] c = "1" -> 1 [] c = "2" -> 2 [] c = "3" -> 3
      [] c = "4" -> 4 [] c = "5" -> 5 [] c = "6" -> 6 [] c = "7" -> 7
      [] c = "8" -> 8 [] c = "9" -> 9

\* DATE = re.compile(r"(\d\d\d\d)-(\d\d)-(\d\d)") matched at offset i.
MatchAt(s, i) ==
    /\ i >= 1
    /\ i + 9 <= Len(s)
    /\ \A k \in {0, 1, 2, 3, 5, 6, 8, 9} : IsDigit(Ch(s, i + k))
    /\ Ch(s, i + 4) = "-"
    /\ Ch(s, i + 7) = "-"

\* re.search(DATE, s): the pattern matches somewhere in s.
Search(s) == \E i \in 1..Len(s) : MatchAt(s, i)

\* s.endswith(suffix)
EndsWith(s, suffix) ==
    /\ Len(suffix) <= Len(s)
    /\ SubSeq(s, Len(s) - Len(suffix) + 1, Len(s)) = suffix

\* Index of the first sep in s at or after i, 0 if none.
RECURSIVE Find(_, _, _)
Find(s, sep, i) ==
    IF i > Len(s) THEN 0
    ELSE IF Ch(s, i) = sep THEN i
    ELSE Find(s, sep, i + 1)

\* Index of the last sep in s at or before i, 0 if none.
RECURSIVE RFind(_, _, _)
RFind(s, sep, i) ==
    IF i < 1 THEN 0
    ELSE IF Ch(s, i) = sep THEN i
    ELSE RFind(s, sep, i - 1)

\* s.split("-")
RECURSIVE Split(_)
Split(s) ==
    LET i == Find(s, "-", 1) IN
    IF i = 0 THEN <<s>>
    ELSE <<SubSeq(s, 1, i - 1)>> \o Split(SubSeq(s, i + 1, Len(s)))

\* s.strip(), the whitespace int() ignores around the digits.
RECURSIVE Strip(_)
Strip(s) ==
    IF Len(s) = 0 THEN s
    ELSE IF Ch(s, 1) = " " THEN Strip(SubSeq(s, 2, Len(s)))
    ELSE IF Ch(s, Len(s)) = " " THEN Strip(SubSeq(s, 1, Len(s) - 1))
    ELSE s

\* int(s) succeeds: digits, possibly surrounded by whitespace.
IntOk(s) ==
    LET t == Strip(s) IN
    /\ Len(t) > 0
    /\ \A i \in 1..Len(t) : IsDigit(Ch(t, i))

RECURSIVE DigitsVal(_)
DigitsVal(t) ==
    IF Len(t) = 0 THEN 0
    ELSE 10 * DigitsVal(SubSeq(t, 1, Len(t) - 1)) + DigitVal(Ch(t, Len(t)))

\* int(s), where IntOk(s)
IntVal(s) == DigitsVal(Strip(s))

\* str.lower() on the letters the model's URLs use.
LowerCh(c) ==
    CASE c = "J" -> "j" [] c = "P" -> "p" [] c = "G" -> "g"
      [] c = "N" -> "n" [] c = "T" -> "t" [] c = "X" -> "x"
      [] OTHER -> c

RECURSIVE Lower(_)
Lower(s) ==
    IF Len(s) = 0 THEN s
    ELSE LowerCh(Ch(s, 1)) \o Lower(SubSeq(s, 2, Len(s)))

\* os.path.splitext(p)[-1]: from the last dot of the last path component,
\* unless that component has only dots before it.
RECURSIVE AllDots(_, _, _)
AllDots(p, from, to) ==
    IF from > to THEN TRUE
    ELSE Ch(p, from) = "." /\ AllDots(p, from + 1, to)

SplitExt(p) ==
    LET sepIndex == RFind(p, "/", Len(p))
        dotIndex == RFind(p, ".", Len(p))
    IN  IF dotIndex > sepIndex /\ ~AllDots(p, sepIndex + 1, dotIndex)
        THEN SubSeq(p, dotIndex, Len(p))
        ELSE ""

(***************************************************************************)
(* datetime                                                                *)
(***************************************************************************)

IsLeap(y) == (y % 4 = 0 /\ y % 100 # 0) \/ y % 400 = 0

DaysInMonth(y, m) ==
    IF m = 2 THEN (IF IsLeap(y) THEN 29 ELSE 28)
    ELSE IF m \in {4, 6, 9, 11} THEN 30
    ELSE 31

\* dt.datetime(year=y, month=m, day=d) does not raise ValueError.
DatetimeOk(y, m, d) ==
    /\ y >= 1 /\ y <= 9999
    /\ m >= 1 /\ m <= 12
    /\ d >= 1 /\ d <= DaysInMonth(y, m)

\* DtGreater with >= in place of >: equal datetimes compare as greater.
DtGreaterOrEqual(a, b) ==
    \/ a[1] > b[1]
    \/ a[1] = b[1] /\ a[2] > b[2]
    \/ a[1] = b[1] /\ a[2] = b[2] /\ a[3] > b[3]
    \/ a[1] = b[1] /\ a[2] = b[2] /\ a[3] = b[3] /\ a[4] >= b[4]

\* A datetime is <<year, month, day, time of day>>; a > b compares them in order.
DtGreater(a, b) ==
    \/ a[1] > b[1]
    \/ a[1] = b[1] /\ a[2] > b[2]
    \/ a[1] = b[1] /\ a[2] = b[2] /\ a[3] > b[3]
    \/ a[1] = b[1] /\ a[2] = b[2] /\ a[3] = b[3] /\ a[4] > b[4]

\* year, month, day = s.split("-") unpacks.
Unpacks(s) == Len(Split(s)) = 3

\* The three int() calls and the datetime constructor succeed on s.
Constructs(s) ==
    LET parts == Split(s) IN
    /\ IntOk(parts[1]) /\ IntOk(parts[2]) /\ IntOk(parts[3])
    /\ DatetimeOk(IntVal(parts[1]), IntVal(parts[2]), IntVal(parts[3]))

\* The datetime built from s (midnight of that day), where Constructs(s).
ToDatetime(s) ==
    LET parts == Split(s) IN
    <<IntVal(parts[1]), IntVal(parts[2]), IntVal(parts[3]), 0>>

(***************************************************************************)
(* Inputs                                                                  *)
(***************************************************************************)

\* Longest object list under one date of a near_earth_objects mapping.
MaxObjects == 2

\* Longest photos list of a rover response.
MaxPhotos == 2

\* Latest time of day, in ticks after midnight, that the clock is read at.
MaxTimeOfDay == 1

Ops == {"asteroids", "apod", "mars"}

\* Real calendar days, written YYYY-MM-DD.
ValidDates == {"2022-12-20", "2022-12-22", "2022-12-23", "2024-02-29"}

\* YYYY-MM-DD in form, but no calendar day.
ImpossibleDates == {"2023-02-30", "2023-13-01", "2022-12-32", "0000-01-01"}

\* Not of the form YYYY-MM-DD, and holding no such substring.
UnmatchedDates == {"December 20, 2022", "2022/12/22", "22-12-2022",
                   "2022-1-22", "20x2-12-22", ""}

\* Not of the form YYYY-MM-DD, but holding a substring of that form.
PaddedDates == {"2022-12-22x", "x2022-12-22", " 2022-12-22", "02022-12-22",
                "12022-12-22", "2022-12-22-01"}

DateInputs == ValidDates \cup ImpossibleDates \cup UnmatchedDates \cup PaddedDates

FileNameInputs == {"", " ", "images.txt", "images", "footxt", "txt", "a.TXT",
                   ".txt", "apod"}

\* What dt.datetime.today() may return: one of two days, at any time of day.
Clock == {<<2022, 12, d, t>> : d \in {22, 23}, t \in 0..MaxTimeOfDay}

StatusCodes == {200, 400}

ImageUrls == {"https://x/y/img.jpg", "https://x/y/pic.PNG", "https://x.y/raw"}

NeoDates == {"2022-12-20", "2022-12-21"}

NearEarthObjects ==
    { [name |-> "Test",
       estimated_diameter |->
         [meters |-> [estimated_diameter_min |-> 1234,
                      estimated_diameter_max |-> 5678],
          feet   |-> [estimated_diameter_min |-> 4049,
                      estimated_diameter_max |-> 18629]]],
      [name |-> "(2010 XC15)",
       estimated_diameter |->
         [meters |-> [estimated_diameter_min |-> 110803,
                      estimated_diameter_max |-> 247765],
          feet   |-> [estimated_diameter_min |-> 363527,
                      estimated_diameter_max |-> 812877]]] }

\* Sequences over S of length at most n.
SeqUpTo(S, n) == UNION {[1..k -> S] : k \in 0..n}

\* A JSON object is a sequence of <<key, value>> pairs with distinct keys.
DistinctKeys(m) == \A i, j \in 1..Len(m) : m[i][1] = m[j][1] => i = j

\* The near_earth_objects mappings: date -> list of objects, in response order.
NeoMappings ==
    {m \in SeqUpTo(NeoDates \X SeqUpTo(NearEarthObjects, MaxObjects),
                   Cardinality(NeoDates)) : DistinctKeys(m)}

\* The photos lists: each photo a JSON object with an img_src.
PhotoLists == SeqUpTo({[img_src |-> u] : u \in ImageUrls}, MaxPhotos)

\* A parsed response body: its JSON kind and, for an object, its pairs.
Dict(items) == [kind |-> "dict", items |-> items]

\* Bodies without the expected key: {}, {"error": ...}, a list, a number.
KeylessResponses ==
    {Dict(<<>>), Dict(<<<<"error", "API_KEY_INVALID">>>>),
     [kind |-> "list", items |-> <<>>], [kind |-> "int", items |-> <<>>]}

AsteroidResponses ==
    KeylessResponses \cup
    {Dict(<<<<"element_count", "n">>, <<"near_earth_objects", m>>>>) : m \in NeoMappings}

ApodResponses ==
    KeylessResponses \cup
    {Dict(<<<<"date", "d">>, <<"hdurl", u>>>>) : u \in ImageUrls}

MarsResponses ==
    KeylessResponses \cup {Dict(<<<<"photos", p>>>>) : p \in PhotoLists}

\* key in response (for a JSON object)
HasKey(response, key) ==
    \E i \in 1..Len(response.items) : response.items[i][1] = key

\* response[key], where HasKey(response, key)
GetItem(response, key) ==
    response.items[CHOOSE i \in 1..Len(response.items) : response.items[i][1] = key][2]

\* The outcome of response[key] inside try/except KeyError.
Subscript(response, key) ==
    IF response.kind # "dict" THEN "TypeError"
    ELSE IF ~HasKey(response, key) THEN "KeyError"
    ELSE "found"

(***************************************************************************)
(* The state after the call: one operation, its arguments, nothing done.   *)
(***************************************************************************)

Init ==
    /\ op \in Ops
    /\ start_date \in (IF op = "asteroids" THEN DateInputs ELSE {""})
    /\ end_date \in (IF op = "asteroids" THEN DateInputs ELSE {""})
    /\ date \in (IF op = "asteroids" THEN {""} ELSE DateInputs)
    /\ file_name \in (IF op = "asteroids" THEN {""} ELSE FileNameInputs)
    /\ today \in (IF op = "mars" THEN Clock ELSE {<<2022, 12, 22, 0>>})
    /\ pc = "validate"
    /\ result = "running"
    /\ returned = 0
    /\ status_code = 0
    /\ api_response = [kind |-> "none", items |-> <<>>]
    /\ log = <<>>
    /\ images = <<>>
    /\ image_url = ""
    /\ fetched = <<>>
    /\ files = <<>>
    /\ printed = <<>>

\* print(message); return False.  False is the integer 0 of Python.
Reject(message) ==
    /\ printed' = Append(printed, message)
    /\ result' = "returned"
    /\ returned' = 0
    /\ pc' = "done"

\* return api_response.status_code
ReturnStatus ==
    /\ result' = "returned"
    /\ returned' = status_code
    /\ pc' = "done"

\* An exception no handler of the operation catches leaves it.
Raise(exception) ==
    /\ result' = exception
    /\ pc' = "done"
    /\ UNCHANGED <<returned, printed>>

\* requests.get(url, params) and the body and status code it answers with.
Get(url, params, response, code) ==
    /\ fetched' = Append(fetched, [url |-> url, params |-> params])
    /\ api_response' = response
    /\ status_code' = code

\* open(name, mode) and what was written before the file was closed.
WriteFile(name, content) ==
    files' = Append(files, [name |-> name, content |-> content])

(***************************************************************************)
(* explore_asteroids                                                       *)
(***************************************************************************)

asteroids_endpoint == "https://api.nasa.gov/neo/rest/v1/feed?"

field_names == <<"date", "name", "estimated_diameter_min_meters",
                 "estimated_diameter_max_meters", "estimated_diameter_min_feet",
                 "estimated_diameter_max_feet">>

\* The input checks of explore_asteroids, in the order the code makes them.
AsteroidsCheck(start, end) ==
    IF ~Search(start) THEN "bad_format"
    ELSE IF ~Search(end) THEN "bad_format"
    ELSE IF ~Unpacks(start) \/ ~Unpacks(end) THEN "ValueError"
    ELSE IF ~Constructs(start) \/ ~Constructs(end) THEN "bad_value"
    ELSE IF DtGreater(ToDatetime(start), ToDatetime(end)) THEN "bad_range"
    ELSE "ok"

AsteroidsValidate ==
    /\ op = "asteroids" /\ pc = "validate"
    /\ LET outcome == AsteroidsCheck(start_date, end_date) IN
       CASE outcome = "bad_format" -> Reject("Invalid date, use YYYY-MM-DD.")
         [] outcome = "ValueError" -> Raise("ValueError")
         [] outcome = "bad_value" ->
              Reject("Invalid dates, use correct values for year, month, day.")
         [] outcome = "bad_range" ->
              Reject("Invalid dates, end date must be after start date.")
         [] outcome = "ok" -> pc' = "fetch" /\ UNCHANGED <<result, returned, printed>>
    /\ UNCHANGED <<op, start_date, end_date, date, file_name, today, status_code,
                   api_response, log, images, image_url, fetched, files>>

AsteroidsFetch ==
    /\ op = "asteroids" /\ pc = "fetch"
    /\ \E response \in AsteroidResponses, code \in StatusCodes :
         Get(asteroids_endpoint, <<start_date, end_date>>, response, code)
    /\ printed' = Append(printed, "Getting API response...")
    /\ pc' = "extract"
    /\ UNCHANGED <<op, start_date, end_date, date, file_name, today, result,
                   returned, log, images, image_url, files>>

AsteroidsExtract ==
    /\ op = "asteroids" /\ pc = "extract"
    /\ LET outcome == Subscript(api_response, "near_earth_objects") IN
       CASE outcome = "TypeError" -> Raise("TypeError") /\ UNCHANGED log
         [] outcome = "KeyError" ->
              /\ Reject("Invalid date/API key. Check if API key is valid and end date is within 7 days of the start date")
              /\ UNCHANGED log
         [] outcome = "found" ->
              /\ log' = GetItem(api_response, "near_earth_objects")
              /\ pc' = "write"
              /\ UNCHANGED <<result, returned, printed>>
    /\ UNCHANGED <<op, start_date, end_date, date, file_name, today, status_code,
                   api_response, images, image_url, fetched, files>>

\* round(x, 2) of a value held in thousandths, in hundredths.  The values
\* the model draws have no 5 in the third decimal, so no tie arises.
Round2(x) == (x + 5) \div 10

\* The row written for one object listed under one date.
Row(d, near_earth_object) ==
    [date |-> d,
     name |-> near_earth_object.name,
     estimated_diameter_min_meters |->
         Round2(near_earth_object.estimated_diameter.meters.estimated_diameter_min),
     estimated_diameter_max_meters |->
         Round2(near_earth_object.estimated_diameter.meters.estimated_diameter_max),
     estimated_diameter_min_feet |->
         Round2(near_earth_object.estimated_diameter.feet.estimated_diameter_min),
     estimated_diameter_max_feet |->
         Round2(near_earth_object.estimated_diameter.feet.estimated_diameter_max)]

\* DateRows with writerow after the inner loop: only the last object of a
\* date is written.
DateRowsLastOnly(d, objects) ==
    IF objects = <<>> THEN <<>> ELSE <<Row(d, objects[Len(objects)])>>

\* for near_earth_object in log[date]: writer.writerow(...)
DateRows(d, objects) == [i \in 1..Len(objects) |-> Row(d, objects[i])]

\* for date in log: ...
RECURSIVE Rows(_)
Rows(mapping) ==
    IF mapping = <<>> THEN <<>>
    ELSE DateRows(mapping[1][1], mapping[1][2]) \o Rows(Tail(mapping))

AsteroidsWrite ==
    /\ op = "asteroids" /\ pc = "write"
    /\ WriteFile("near_earth_object_data.csv", <<field_names>> \o Rows(log))
    /\ printed' = printed \o <<"Writing data to csv file...",
                               "Finished writing data to near_earth_object_data.csv.">>
    /\ ReturnStatus
    /\ UNCHANGED <<op, start_date, end_date, date, file_name, today, status_code,
                   api_response, log, images, image_url, fetched>>

(***************************************************************************)
(* explore_apod                                                            *)
(***************************************************************************)

apod_endpoint == "https://api.nasa.gov/planetary/apod"

\* ApodCheck without the file name check.
ApodCheckNoName(d, name) ==
    IF ~Search(d) THEN "bad_format" ELSE "ok"

\* The input checks of explore_apod, in the order the code makes them.
ApodCheck(d, name) ==
    IF ~Search(d) THEN "bad_format"
    ELSE IF name = "" \/ name = " " THEN "bad_name"
    ELSE "ok"

ApodValidate ==
    /\ op = "apod" /\ pc = "validate"
    /\ LET outcome == ApodCheck(date, file_name) IN
       CASE outcome = "bad_format" -> Reject("Invalid date format, use YYYY-MM-DD.")
         [] outcome = "bad_name" -> Reject("Invalid file name.")
         [] outcome = "ok" -> pc' = "fetch" /\ UNCHANGED <<result, returned, printed>>
    /\ UNCHANGED <<op, start_date, end_date, date, file_name, today, status_code,
                   api_response, log, images, image_url, fetched, files>>

ApodFetch ==
    /\ op = "apod" /\ pc = "fetch"
    /\ \E response \in ApodResponses, code \in StatusCodes :
         Get(apod_endpoint, <<date>>, response, code)
    /\ printed' = Append(printed, "Getting API response...")
    /\ pc' = "extract"
    /\ UNCHANGED <<op, start_date, end_date, date, file_name, today, result,
                   returned, log, images, image_url, files>>

ApodExtract ==
    /\ op = "apod" /\ pc = "extract"
    /\ LET outcome == Subscript(api_response, "hdurl") IN
       CASE outcome = "TypeError" -> Raise("TypeError") /\ UNCHANGED image_url
         [] outcome = "KeyError" ->
              /\ Reject("Invalid date/API key. Check if API key is valid and date is not after today.")
              /\ UNCHANGED image_url
         [] outcome = "found" ->
              /\ image_url' = GetItem(api_response, "hdurl")
              /\ pc' = "save_image"
              /\ UNCHANGED <<result, returned, printed>>
    /\ UNCHANGED <<op, start_date, end_date, date, file_name, today, status_code,
                   api_response, log, images, fetched, files>>

\* The image is fetched and saved under the file name plus the URL's
\* extension; what is returned is the status code of the first response.
ApodSave ==
    /\ op = "apod" /\ pc = "save_image"
    /\ fetched' = Append(fetched, [url |-> image_url, params |-> <<>>])
    /\ WriteFile(file_name \o SplitExt(image_url), <<image_url>>)
    /\ printed' = printed \o <<"Saving image...",
                               "Saved image as " \o file_name \o SplitExt(image_url) \o ".">>
    /\ ReturnStatus
    /\ UNCHANGED <<op, start_date, end_date, date, file_name, today, status_code,
                   api_response, log, images, image_url>>

(***************************************************************************)
(* explore_mars_rover_photos                                               *)
(***************************************************************************)

mars_endpoint == "https://api.nasa.gov/mars-photos/api/v1/rovers/curiosity/photos"

\* MarsCheck with the current day refused as well as the days after it.
MarsCheckNotToday(name, d, now) ==
    IF ~Search(d) THEN "bad_format"
    ELSE IF name = "" \/ name = " " \/ ~EndsWith(name, "txt") THEN "bad_name"
    ELSE IF ~Unpacks(d) THEN "ValueError"
    ELSE IF ~Constructs(d) THEN "bad_value"
    ELSE IF DtGreaterOrEqual(ToDatetime(d), <<now[1], now[2], now[3], 0>>)
         THEN "future_date"
    ELSE "ok"

\* The input checks of explore_mars_rover_photos, in the order the code
\* makes them; now is what dt.datetime.today() returns.
MarsCheck(name, d, now) ==
    IF ~Search(d) THEN "bad_format"
    ELSE IF name = "" \/ name = " " \/ ~EndsWith(name, "txt") THEN "bad_name"
    ELSE IF ~Unpacks(d) THEN "ValueError"
    ELSE IF ~Constructs(d) THEN "bad_value"
    ELSE IF DtGreater(ToDatetime(d), now) THEN "future_date"
    ELSE "ok"

MarsValidate ==
    /\ op = "mars" /\ pc = "validate"
    /\ LET outcome == MarsCheck(file_name, date, today) IN
       CASE outcome = "bad_format" -> Reject("Invalid date format, use YYYY-MM-DD.")
         [] outcome = "bad_name" ->
              Reject("Invalid file name, must contain characters and end with .txt .")
         [] outcome = "ValueError" -> Raise("ValueError")
         [] outcome = "bad_value" ->
              Reject("Invalid date, use correct values for year, month, day")
         [] outcome = "future_date" -> Reject("Date must not be after today.")
         [] outcome = "ok" -> pc' = "fetch" /\ UNCHANGED <<result, returned, printed>>
    /\ UNCHANGED <<op, start_date, end_date, date, file_name, today, status_code,
                   api_response, log, images, image_url, fetched, files>>

MarsFetch ==
    /\ op = "mars" /\ pc = "fetch"
    /\ \E response \in MarsResponses, code \in StatusCodes :
         Get(mars_endpoint, <<date>>, response, code)
    /\ printed' = Append(printed, "Getting API response...")
    /\ pc' = "extract"
    /\ UNCHANGED <<op, start_date, end_date, date, file_name, today, result,
                   returned, log, images, image_url, files>>

\* photos = rover_images["photos"]; the model keeps photos in log.
MarsExtract ==
    /\ op = "mars" /\ pc = "extract"
    /\ LET outcome == Subscript(api_response, "photos") IN
       CASE outcome = "TypeError" -> Raise("TypeError") /\ UNCHANGED log
         [] outcome = "KeyError" -> Reject("Invalid date/API key.") /\ UNCHANGED log
         [] outcome = "found" ->
              /\ log' = GetItem(api_response, "photos")
              /\ pc' = "write"
              /\ UNCHANGED <<result, returned, printed>>
    /\ UNCHANGED <<op, start_date, end_date, date, file_name, today, status_code,
                   api_response, images, image_url, fetched, files>>

\* The URLs of the photos, in order: what the loop appends to images.
ImgSrcs(photos) == [i \in 1..Len(photos) |-> photos[i].img_src]

\* The value the loop variable image_url holds once the loop has ended
\* (unbound, here "", when the loop body never ran).
LoopImageUrl(photos) ==
    IF photos = <<>> THEN "" ELSE photos[Len(photos)].img_src

MarsWrite ==
    /\ op = "mars" /\ pc = "write"
    /\ images' = ImgSrcs(log)
    /\ image_url' = LoopImageUrl(log)
    /\ WriteFile(file_name, ImgSrcs(log))
    /\ printed' = printed \o <<"Saving urls to " \o file_name \o "...",
                               "Saved urls to " \o file_name \o ".">>
    /\ pc' = "first_image"
    /\ UNCHANGED <<op, start_date, end_date, date, file_name, today, result,
                   returned, status_code, api_response, log, fetched>>

\* NoImage that also gives up on a single URL.
NoImageOrOne(urls) == Len(urls) <= 1

\* images[0] raises IndexError, which the handler turns into sys.exit().
NoImage(urls) == urls = <<>>

MarsFirstImage ==
    /\ op = "mars" /\ pc = "first_image"
    /\ IF NoImage(images)
       THEN Raise("SystemExit")
       ELSE pc' = "save_image" /\ UNCHANGED <<result, returned, printed>>
    /\ UNCHANGED <<op, start_date, end_date, date, file_name, today, status_code,
                   api_response, log, images, image_url, fetched, files>>

\* The extension is that of images[0], lowered; the bytes are those of
\* image_url.
MarsSave ==
    /\ op = "mars" /\ pc = "save_image"
    /\ fetched' = Append(fetched, [url |-> image_url, params |-> <<>>])
    /\ WriteFile("mars" \o Lower(SplitExt(images[1])), <<image_url>>)
    /\ printed' = printed \o <<"Saving first image...",
                               "Image saved as mars" \o Lower(SplitExt(images[1])) \o ".">>
    /\ ReturnStatus
    /\ UNCHANGED <<op, start_date, end_date, date, file_name, today, status_code,
                   api_response, log, images, image_url>>

Next ==
    \/ AsteroidsValidate \/ AsteroidsFetch \/ AsteroidsExtract \/ AsteroidsWrite
    \/ ApodValidate \/ ApodFetch \/ ApodExtract \/ ApodSave
    \/ MarsValidate \/ MarsFetch \/ MarsExtract \/ MarsWrite \/ MarsFirstImage
    \/ MarsSave

Spec == Init /\ [][Next]_vars

(***************************************************************************)
(* Vocabulary of the properties                                            *)
(***************************************************************************)

\* s is exactly four digits, a dash, two digits, a dash, two digits.
WellFormed(s) == Len(s) = 10 /\ MatchAt(s, 1)

YearOf(s) == DigitsVal(SubSeq(s, 1, 4))
MonthOf(s) == DigitsVal(SubSeq(s, 6, 7))
DayOf(s) == DigitsVal(SubSeq(s, 9, 10))

\* s is well formed and names a day of the calendar.
RealDay(s) == WellFormed(s) /\ DatetimeOk(YearOf(s), MonthOf(s), DayOf(s))

\* Orders the real days: later days have larger numbers.
DayNumber(s) == YearOf(s) * 10000 + MonthOf(s) * 100 + DayOf(s)

\* The date arguments of the running operation.
Dates == IF op = "asteroids" THEN {start_date, end_date} ELSE {date}

\* The operation returned, and what it returned is falsy.
Falsy == result = "returned" /\ returned = 0

\* The operation stopped on a failure return before any fetch.
RejectedUnfetched == pc = "done" /\ Falsy /\ fetched = <<>> /\ files = <<>>

\* The operation got past its input checks.
Accepted == pc = "fetch" \/ fetched # <<>>

\* What the input checks print when they fail.
ValidationMessages ==
    {"Invalid date, use YYYY-MM-DD.",
     "Invalid dates, use correct values for year, month, day.",
     "Invalid dates, end date must be after start date.",
     "Invalid date format, use YYYY-MM-DD.",
     "Invalid file name.",
     "Invalid file name, must contain characters and end with .txt .",
     "Invalid date, use correct values for year, month, day",
     "Date must not be after today."}

ValidationFailed == \E i \in 1..Len(printed) : printed[i] \in ValidationMessages

\* Every input check the running operation makes holds of its arguments.
ChecksPassed ==
    CASE op = "asteroids" ->
           /\ \A d \in {start_date, end_date} :
                Search(d) /\ Unpacks(d) /\ Constructs(d)
           /\ ~DtGreater(ToDatetime(start_date), ToDatetime(end_date))
      [] op = "apod" ->
           /\ Search(date)
           /\ file_name \notin {"", " "}
      [] op = "mars" ->
           /\ Search(date)
           /\ file_name \notin {"", " "}
           /\ EndsWith(file_name, "txt")
           /\ Unpacks(date) /\ Constructs(date)
           /\ ~DtGreater(ToDatetime(date), today)

\* The top-level key the running operation reads from the response.
ExpectedKey ==
    CASE op = "asteroids" -> "near_earth_objects"
      [] op = "apod" -> "hdurl"
      [] op = "mars" -> "photos"

\* The response was received and holds the expected key.
Found == fetched # <<>> /\ Subscript(api_response, ExpectedKey) = "found"

\* The number of objects of a near_earth_objects mapping, over its first n dates.
RECURSIVE ObjectCount(_, _)
ObjectCount(mapping, n) ==
    IF n = 0 THEN 0 ELSE ObjectCount(mapping, n - 1) + Len(mapping[n][2])

(***************************************************************************)
(* Properties                                                              *)
(***************************************************************************)

\* C1: input validation is fail-fast.  Once an input check has failed the
\* operation has returned a falsy value with no fetch issued and no file
\* written; a fetch is issued only when every input check of the operation
\* has passed, and a file is written only after a fetch.
C1_FailFast ==
    /\ ValidationFailed => RejectedUnfetched
    /\ fetched # <<>> => ChecksPassed
    /\ files # <<>> => fetched # <<>>

\* C1 witness: the range check fails and explore_asteroids has returned.
C1_Witness ==
    /\ op = "asteroids" /\ start_date = "2022-12-23" /\ end_date = "2022-12-22"
    /\ ValidationFailed /\ RejectedUnfetched

\* C2: a date argument that is not exactly YYYY-MM-DD makes the operation
\* return a falsy value, with no exception and no fetch.
C2_MalformedDateRejected ==
    (pc # "validate" /\ \E d \in Dates : ~WellFormed(d)) => RejectedUnfetched

\* C3: when the date arguments are of the form YYYY-MM-DD and one of them is
\* no calendar day, the operation returns a falsy value before any fetch.
C3_ImpossibleDateRejected ==
    (/\ pc # "validate"
     /\ \A d \in Dates : WellFormed(d)
     /\ \E d \in Dates : ~RealDay(d)) => RejectedUnfetched

C5_FileNameRejected ==
    (/\ pc # "validate"
     /\ \/ op = "mars" /\ (file_name \in {"", " "} \/ ~EndsWith(file_name, ".txt"))
        \/ op = "apod" /\ file_name \in {"", " "})
    => RejectedUnfetched

\* C6: a response without the expected top-level key, whatever its shape,
\* makes the operation return a falsy value: no exception, no file written,
\* no second fetch.
C6_MissingKeyHandled ==
    (/\ pc = "done" /\ fetched # <<>>
     /\ Subscript(api_response, ExpectedKey) # "found")
    => Falsy /\ files = <<>> /\ Len(fetched) = 1

\* C7: for a non-empty photos list, the text file holds every img_src in
\* response order, and the image fetched and saved as mars<ext> is the first
\* one: the second request is for the first URL and the extension is the
\* first URL's.
C7_FirstImageSaved ==
    (op = "mars" /\ pc = "done" /\ Found /\ log # <<>>)
    => /\ Len(files) = 2 /\ Len(fetched) = 2
       /\ files[1] = [name |-> file_name, content |-> ImgSrcs(log)]
       /\ fetched[2].url = log[1].img_src
       /\ files[2].name = "mars" \o Lower(SplitExt(log[1].img_src))

\* C8: explore_asteroids writes the header and then one row per object per
\* date, in mapping order and then list order, each row with its date key
\* and the object's name, and returns the status code of its one fetch.
C8_RowsInOrder ==
    (op = "asteroids" /\ pc = "done" /\ Found)
    => LET mapping == GetItem(api_response, "near_earth_objects")
           content == files[1].content
       IN  /\ Len(files) = 1 /\ Len(fetched) = 1
           /\ files[1].name = "near_earth_object_data.csv"
           /\ content[1] = field_names
           /\ Len(content) = 1 + ObjectCount(mapping, Len(mapping))
           /\ \A i \in 1..Len(mapping) : \A j \in 1..Len(mapping[i][2]) :
                LET row == content[1 + ObjectCount(mapping, i - 1) + j] IN
                /\ row.date = mapping[i][1]
                /\ row.name = mapping[i][2][j].name
           /\ result = "returned" /\ returned = status_code

\* C8 witness: a response of two dates and three objects has been written.
C8_Witness ==
    /\ op = "asteroids" /\ pc = "done" /\ Found
    /\ Len(log) = 2 /\ ObjectCount(log, 2) = 3
    /\ Len(log[1][2]) = 1 /\ log[1][1] = "2022-12-21"
    /\ Len(files) = 1

C10_EmptyPhotosExit ==
    op = "mars" =>
      /\ (pc = "done" /\ Found /\ log = <<>>)
         => /\ result = "SystemExit"
            /\ files = <<[name |-> file_name, content |-> <<>>]>>
            /\ Len(fetched) = 1
      /\ (pc = "done" /\ Found) => (Len(fetched) = 2 <=> log # <<>>)
      /\ pc = "save_image" => log # <<>>
      /\ Len(fetched) <= 2

\* C10 witness: the photos list was empty and the process has exited.
C10_Witness ==
    /\ op = "mars" /\ pc = "done" /\ Found /\ log = <<>>
    /\ result = "SystemExit" /\ Len(files) = 1

====
